---- MODULE Spec2Model ----
(***************************************************************************)
(* Model of src/main.py: a command-line pipeline that resolves a video     *)
(* identifier from a URL, prepares a per-video workspace, acquires audio,  *)
(* transcribes it, asks a completion service for vocabulary entries and    *)
(* renders them as Markdown cards.                                         *)
(*                                                                         *)
(* Text is modelled as a sequence of tokens.  A token is either a single   *)
(* delimiter character ("/", "?", "&", "=", ":", "[", "]", ".", "*", "-",  *)
(* " ", "\n", a digit) or an atom: a maximal run of characters that holds  *)
(* no delimiter.  Every string operation of the source (slicing, split,    *)
(* startswith, regular-expression search) is modelled on token sequences.  *)
(***************************************************************************)
EXTENDS Integers, Sequences, FiniteSets, TLC

\* None of Python, for the values that are sequences here: an optional value
\* is << >> (None) or << v >>
None == << >>
Some(v) == << v >>

(***************************************************************************)
(* Generic sequence helpers                                                *)
(***************************************************************************)

\* s[i:] of Python (i is 0-based): the suffix that starts after i tokens
SliceFrom(s, i) == SubSeq(s, i + 1, Len(s))

\* s.startswith(p)
StartsWith(s, p) == Len(s) >= Len(p) /\ SubSeq(s, 1, Len(p)) = p

\* s.find(d) from position `from` (1-based); Len(s)+1 when absent
RECURSIVE FindFrom(_, _, _)
FindFrom(s, D, from) ==
    IF from > Len(s) THEN Len(s) + 1
    ELSE IF s[from] \in D THEN from
    ELSE FindFrom(s, D, from + 1)

\* s.split(d): the pieces between the occurrences of d, empty pieces kept
RECURSIVE SplitOn(_, _)
SplitOn(s, d) ==
    LET i == FindFrom(s, {d}, 1)
    IN  IF i > Len(s) THEN << s >>
        ELSE << SubSeq(s, 1, i - 1) >> \o SplitOn(SliceFrom(s, i), d)

(***************************************************************************)
(* urllib.parse as get_video_id uses it                                    *)
(***************************************************************************)
UrlDelims == {"/", "?", "&", "=", ":"}

\* urlparse(url): scheme up to the first ":", netloc after "//" up to the
\* next "/" or "?", then path up to the first "?", then the query.
urlparse(url) ==
    LET c       == FindFrom(url, {":"}, 1)
        hasSch  == /\ c > 1
                   /\ c <= Len(url)
                   /\ \A k \in 1..(c - 1) : url[k] \notin UrlDelims
        rest1   == IF hasSch THEN SliceFrom(url, c) ELSE url
        hasNet  == StartsWith(rest1, << "/", "/" >>)
        afterSl == SliceFrom(rest1, 2)
        nEnd    == FindFrom(afterSl, {"/", "?"}, 1)
        netloc  == IF hasNet THEN SubSeq(afterSl, 1, nEnd - 1) ELSE << >>
        rest2   == IF hasNet THEN SliceFrom(afterSl, nEnd - 1) ELSE rest1
        q       == FindFrom(rest2, {"?"}, 1)
    IN  [ netloc |-> netloc,
          path   |-> SubSeq(rest2, 1, q - 1),
          query  |-> SliceFrom(rest2, q) ]

\* parse_qs(query): the (name, value) pairs in textual order; a piece with
\* no "=" or with a blank value is left out (keep_blank_values is False).
RECURSIVE QsPairs(_)
QsPairs(pieces) ==
    IF pieces = << >> THEN << >>
    ELSE LET p  == Head(pieces)
             e  == FindFrom(p, {"="}, 1)
             nv == [ name |-> SubSeq(p, 1, e - 1), value |-> SliceFrom(p, e) ]
         IN  (IF e <= Len(p) /\ Len(nv.value) > 0 THEN << nv >> ELSE << >>)
             \o QsPairs(Tail(pieces))

RECURSIVE QsValues(_, _)
QsValues(pairs, name) ==
    IF pairs = << >> THEN << >>
    ELSE (IF Head(pairs).name = name THEN << Head(pairs).value >> ELSE << >>)
         \o QsValues(Tail(pairs), name)

\* parse_qs(query)[name]: the list of the values of `name`; << >> stands
\* for a missing key (indexing it raises KeyError)
parse_qs(query, name) == QsValues(QsPairs(SplitOn(query, "&")), name)

Ok(v)     == [ ok |-> TRUE, value |-> v ]
Raise(e)  == [ ok |-> FALSE, value |-> e ]

\* Variant of get_video_id: the embed and direct-id branches take the
\* path piece before the identifier
get_video_id_wrong_piece(url) ==
    LET p == urlparse(url)
    IN  IF p.netloc = << "youtu.be" >> THEN Ok(SliceFrom(p.path, 1))
        ELSE IF p.netloc \in { << "www.youtube.com" >>, << "youtube.com" >> }
        THEN IF p.path = << "/", "watch" >>
             THEN LET vs == parse_qs(p.query, << "v" >>)
                  IN  IF vs = << >> THEN Raise("KeyError") ELSE Ok(vs[1])
             ELSE IF StartsWith(p.path, << "/", "embed", "/" >>)
             THEN Ok(SplitOn(p.path, "/")[2])
             ELSE IF StartsWith(p.path, << "/", "v", "/" >>)
             THEN Ok(SplitOn(p.path, "/")[2])
             ELSE Raise("ValueError")
        ELSE Raise("ValueError")

get_video_id(url) ==
    LET p == urlparse(url)
    IN  IF p.netloc = << "youtu.be" >> THEN Ok(SliceFrom(p.path, 1))
        ELSE IF p.netloc \in { << "www.youtube.com" >>, << "youtube.com" >> }
        THEN IF p.path = << "/", "watch" >>
             THEN LET vs == parse_qs(p.query, << "v" >>)
                  IN  IF vs = << >> THEN Raise("KeyError") ELSE Ok(vs[1])
             ELSE IF StartsWith(p.path, << "/", "embed", "/" >>)
             THEN Ok(SplitOn(p.path, "/")[3])
             ELSE IF StartsWith(p.path, << "/", "v", "/" >>)
             THEN Ok(SplitOn(p.path, "/")[3])
             ELSE Raise("ValueError")
        ELSE Raise("ValueError")

(***************************************************************************)
(* Regular expressions of save_claude_response, on token sequences         *)
(***************************************************************************)
WS     == {" ", "\n"}
Digits == {"0", "1", "2", "3", "4", "5", "6", "7", "8", "9"}

\* re.IGNORECASE on the label words of the bounded alphabet
Lower(t) ==
    CASE t \in {"Meaning", "MEANING"}         -> "meaning"
      [] t \in {"Example", "EXAMPLE"}         -> "example"
      [] t \in {"Translation", "TRANSLATION"} -> "translation"
      [] OTHER                                -> t

\* The label alternatives as the source spells them.  "ko_meaning",
\* "ko_example" and "ko_translation" stand for the three non-ASCII label
\* literals of lines 218, 219 and 235-237.
NumberedMeaningLabels == {"meaning"}
LegacyMeaningLabels   == {"ko_meaning", "meaning"}
ExampleLabels         == {"example", "ko_example"}
TranslationLabels     == {"translation", "ko_translation"}

\* str.strip(): leading and trailing whitespace removed
RECURSIVE LStrip(_)
LStrip(s) == IF s # << >> /\ Head(s) \in WS THEN LStrip(Tail(s)) ELSE s

RECURSIVE RStrip(_)
RStrip(s) ==
    IF s # << >> /\ s[Len(s)] \in WS THEN RStrip(SubSeq(s, 1, Len(s) - 1)) ELSE s

Strip(s) == RStrip(LStrip(s))

\* first index >= i whose token is outside class C (a greedy C* from i)
RECURSIVE SkipClass(_, _, _)
SkipClass(e, i, C) ==
    IF i <= Len(e) /\ e[i] \in C THEN SkipClass(e, i + 1, C) ELSE i

\* the token at index i; "" outside the sequence
At(e, i) == IF i >= 1 /\ i <= Len(e) THEN e[i] ELSE ""

Min(S) == CHOOSE x \in S : \A y \in S : x <= y

\* (.+?) from index s followed by the literal tokens `close`: the ends j (the
\* index of the first token of `close`) of the captures that match; "."
\* matches no newline and the capture holds at least one token.
LazyEnds(e, s, close) ==
    { j \in (s + 1)..Len(e) :
        /\ j + Len(close) - 1 <= Len(e)
        /\ SubSeq(e, j, j + Len(close) - 1) = close
        /\ \A k \in s..(j - 1) : e[k] # "\n" }

\* re.split(r'-{3,}', s): cut at every run of three or more "-"
RECURSIVE SplitRule(_, _)
SplitRule(s, cur) ==
    IF s = << >> THEN << cur >>
    ELSE IF StartsWith(s, << "-", "-", "-" >>)
         THEN << cur >> \o SplitRule(SliceFrom(s, SkipClass(s, 1, {"-"}) - 1), << >>)
         ELSE SplitRule(Tail(s), Append(cur, Head(s)))

\* numbered_pattern: ^[\s*]*(\d+)[\s*]*\.\s*\[(.+?)\]:  with re.MULTILINE
NumberedAt(e, p) ==
    LET i1 == SkipClass(e, p, WS \cup {"*"})
        i2 == SkipClass(e, i1, Digits)
        i3 == SkipClass(e, i2, WS \cup {"*"})
        i4 == SkipClass(e, i3 + 1, WS)
        js == LazyEnds(e, i4 + 1, << "]", ":" >>)
    IN  IF i2 > i1 /\ At(e, i3) = "." /\ At(e, i4) = "[" /\ js # {}
        THEN Some([ number |-> SubSeq(e, i1, i2 - 1),
                    word   |-> SubSeq(e, i4 + 1, Min(js) - 1) ])
        ELSE None

LineStarts(e) == { p \in 1..Len(e) : p = 1 \/ e[p - 1] = "\n" }

numbered_pattern_search(e) ==
    LET ps == { p \in LineStarts(e) : NumberedAt(e, p) # None }
    IN  IF ps = {} THEN None ELSE NumberedAt(e, Min(ps))

\* re.search(r'<label> \[(.+?)\]', entry, re.IGNORECASE)
BracketAt(e, p, labels) ==
    LET js == LazyEnds(e, p + 3, << "]" >>)
    IN  IF Lower(e[p]) \in labels /\ At(e, p + 1) = " " /\ At(e, p + 2) = "[" /\ js # {}
        THEN Some(SubSeq(e, p + 3, Min(js) - 1))
        ELSE None

bracket_search(e, labels) ==
    LET ps == { p \in 1..Len(e) : BracketAt(e, p, labels) # None }
    IN  IF ps = {} THEN None ELSE BracketAt(e, Min(ps), labels)

\* re.search(r'(?:<label>|<label>): (.+)', entry, re.IGNORECASE)
LineAt(e, p, labels) ==
    IF /\ Lower(e[p]) \in labels
       /\ At(e, p + 1) = ":"
       /\ At(e, p + 2) = " "
       /\ p + 3 <= Len(e)
       /\ e[p + 3] # "\n"
    THEN Some(SubSeq(e, p + 3, FindFrom(e, {"\n"}, p + 3) - 1))
    ELSE None

line_search(e, labels) ==
    LET ps == { p \in 1..Len(e) : LineAt(e, p, labels) # None }
    IN  IF ps = {} THEN None ELSE LineAt(e, Min(ps), labels)

\* re.search(r'\[(.+?)\]: (?:<label>|meaning) \[(.+?)\]', entry, re.IGNORECASE)
LegacyAt(e, p, labels) ==
    LET js == { j \in LazyEnds(e, p + 1, << "]", ":", " " >>) :
                  /\ Lower(At(e, j + 3)) \in labels
                  /\ At(e, j + 4) = " "
                  /\ At(e, j + 5) = "["
                  /\ LazyEnds(e, j + 6, << "]" >>) # {} }
    IN  IF e[p] = "[" /\ js # {}
        THEN LET j == Min(js)
             IN  Some([ word    |-> SubSeq(e, p + 1, j - 1),
                        meaning |-> SubSeq(e, j + 6, Min(LazyEnds(e, j + 6, << "]" >>)) - 1) ])
        ELSE None

legacy_search(e, labels) ==
    LET ps == { p \in 1..Len(e) : LegacyAt(e, p, labels) # None }
    IN  IF ps = {} THEN None ELSE LegacyAt(e, Min(ps), labels)

(***************************************************************************)
(* save_claude_response: extraction of the cards and rendering             *)
(***************************************************************************)

\* match.group(i): calling it on a failed search (None) raises AttributeError
Group(m) == IF m = None THEN Raise("AttributeError") ELSE Ok(m[1])

IsBlank(entry) == Strip(entry) = << >>

\* the f-string of lines 226-231
NumberedCardText(number, word, meaning, example, translation) ==
    << "#", "#", "#", " " >> \o number \o << ".", " ", "memo", " ", "*", "*" >>
    \o word \o << "*", "*", " ", " ", "\n" >>
    \o << "-", " ", "*", "*", "Meaning", "*", "*", ":", " " >> \o meaning \o << " ", " ", "\n" >>
    \o << "-", " ", "*", "*", "Example", "*", "*", ":", " ", "*" >> \o example \o << "*", " ", " ", "\n" >>
    \o << "-", " ", "*", "*", "Translation", "*", "*", ":", " " >> \o translation
    \o << "\n", "\n", "-", "-", "-" >>

\* the f-string of lines 245-250
LegacyCardText(word, meaning, example, translation) ==
    << "#", "#", "#", " ", "memo", " ", "*", "*" >>
    \o word \o << "*", "*", " ", " ", "\n" >>
    \o << "-", " ", "*", "*", "Meaning", "*", "*", ":", " " >> \o meaning \o << " ", " ", "\n" >>
    \o << "-", " ", "*", "*", "Example", "*", "*", ":", " ", "*" >> \o example \o << "*", " ", " ", "\n" >>
    \o << "-", " ", "*", "*", "Translation", "*", "*", ":", " " >> \o translation
    \o << "\n", "\n", "-", "-", "-" >>

\* Variant of AllMatched: the translation search is not tested
AllMatched_without_translation(m1, m2, m3) == m1 # None /\ m2 # None

\* line 221 and line 239: the three searches all matched
AllMatched(m1, m2, m3) == m1 # None /\ m2 # None /\ m3 # None

\* the record built from the groups; a group of a failed search raises
RecordOf(ordinal, term, meaning, example, translation) ==
    IF term.ok /\ meaning.ok /\ example.ok /\ translation.ok
    THEN Ok(<< [ ordinal     |-> ordinal,
                 term        |-> Strip(term.value),
                 meaning     |-> Strip(meaning.value),
                 example     |-> Strip(example.value),
                 translation |-> Strip(translation.value) ] >>)
    ELSE Raise("AttributeError")

\* lines 211-232: the numbered branch of the loop body
NumberedEntry(entry, numbered_match) ==
    LET meaning_match     == bracket_search(entry, NumberedMeaningLabels)
        example_match     == line_search(entry, ExampleLabels)
        translation_match == line_search(entry, TranslationLabels)
    IN  IF AllMatched(meaning_match, example_match, translation_match)
        THEN RecordOf(numbered_match[1].number, Ok(numbered_match[1].word),
                      Group(meaning_match), Group(example_match),
                      Group(translation_match))
        ELSE Ok(<< >>)

\* lines 233-251: the legacy branch of the loop body
LegacyEntry(entry) ==
    LET match_word        == legacy_search(entry, LegacyMeaningLabels)
        match_example     == line_search(entry, ExampleLabels)
        match_translation == line_search(entry, TranslationLabels)
    IN  IF AllMatched(match_word, match_example, match_translation)
        THEN RecordOf(None,
                      IF match_word = None THEN Group(None) ELSE Ok(match_word[1].word),
                      IF match_word = None THEN Group(None) ELSE Ok(match_word[1].meaning),
                      Group(match_example), Group(match_translation))
        ELSE Ok(<< >>)

\* Variant of EntryRecords: a numbered entry that yields nothing is tried
\* again as a legacy entry
EntryRecords_retrying(entry) ==
    IF IsBlank(entry) THEN Ok(<< >>)
    ELSE LET numbered_match == numbered_pattern_search(entry)
             numbered       == IF numbered_match # None
                               THEN NumberedEntry(entry, numbered_match)
                               ELSE Ok(<< >>)
         IN  IF numbered.ok /\ numbered.value # << >> THEN numbered
             ELSE LegacyEntry(entry)

\* lines 204-251: one pass of the loop: the records the entry appends
EntryRecords(entry) ==
    IF IsBlank(entry) THEN Ok(<< >>)
    ELSE LET numbered_match == numbered_pattern_search(entry)
         IN  IF numbered_match # None
             THEN NumberedEntry(entry, numbered_match)
             ELSE LegacyEntry(entry)

\* Variant of ExtractFrom: a new record goes to the front of the list
RECURSIVE ExtractFrom_prepending(_, _)
ExtractFrom_prepending(entries, acc) ==
    IF entries = << >> THEN Ok(acc)
    ELSE LET r == EntryRecords(Head(entries))
         IN  IF r.ok THEN ExtractFrom_prepending(Tail(entries), r.value \o acc) ELSE r

\* lines 196-251: entries = re.split(...); the loop over the entries
RECURSIVE ExtractFrom(_, _)
ExtractFrom(entries, acc) ==
    IF entries = << >> THEN Ok(acc)
    ELSE LET r == EntryRecords(Head(entries))
         IN  IF r.ok THEN ExtractFrom(Tail(entries), acc \o r.value) ELSE r

Entries(response) == SplitRule(Strip(response), << >>)

extract(response) == ExtractFrom(Entries(response), << >>)

CardText(rec) ==
    IF rec.ordinal = None
    THEN LegacyCardText(rec.term, rec.meaning, rec.example, rec.translation)
    ELSE NumberedCardText(rec.ordinal, rec.term, rec.meaning, rec.example, rec.translation)

\* "\n\n".join(formatted_entries)
RECURSIVE JoinCards(_)
JoinCards(cards) ==
    IF cards = << >> THEN << >>
    ELSE IF Len(cards) = 1 THEN CardText(cards[1])
    ELSE CardText(cards[1]) \o << "\n", "\n" >> \o JoinCards(Tail(cards))

\* line 254: markdown_text
render(video_title, records) ==
    << "#", " " >> \o video_title \o << "\n", "\n" >> \o JoinCards(records)

(***************************************************************************)
(* The file system: directories and files keyed by their path              *)
(***************************************************************************)

\* os.path.join(a, b)
path_join(a, b) ==
    IF b # << >> /\ Head(b) = "/" THEN b
    ELSE IF a = << >> \/ a[Len(a)] = "/" THEN a \o b
    ELSE a \o << "/" >> \o b

\* os.makedirs(d, exist_ok=True): d and the directories above it
MadeDirs(d) ==
    { SubSeq(d, 1, k) : k \in { k \in 1..Len(d) : d[k] # "/" /\ At(d, k + 1) \in {"/", ""} } }

\* os.listdir(d): the names of the files right under d
listdir(files, d) ==
    { SliceFrom(f, Len(d) + 1) : f \in { f \in DOMAIN files :
        /\ StartsWith(f, d \o << "/" >>)
        /\ Len(f) > Len(d) + 1
        /\ \A k \in (Len(d) + 2)..Len(f) : f[k] # "/" } }

\* f.endswith('.wav')
IsWav(name) == name # << >> /\ name[Len(name)] = ".wav"

\* os.path.splitext(os.path.basename(audio_file))[0]
TitleOf(audio_file) ==
    LET parts == SplitOn(audio_file, "/")
        base  == parts[Len(parts)]
    IN  IF base # << >> /\ base[Len(base)] \in {".wav", ".md", ".txt"}
        THEN SubSeq(base, 1, Len(base) - 1) ELSE base

\* line 191: re.sub(r'[^\w\s-]', '', video_title).strip().replace(' ', '_')
Punctuation == {"!", "?", ":", ".", "[", "]", "*", "/", "&", "="}

UnderscoreSpaces(s) == [ k \in 1..Len(s) |-> IF s[k] = " " THEN "_" ELSE s[k] ]

safe_title(video_title) ==
    UnderscoreSpaces(Strip(SelectSeq(video_title, LAMBDA t : t \notin Punctuation)))

(***************************************************************************)
(* Inputs of the runs and answers of the external collaborators            *)
(***************************************************************************)
MaxRuns == 2

OutputDir == << "output" >>

Https(host) == << "https", ":", "/", "/", host >>

RunUrls ==
    { Https("youtu.be") \o << "/", "abc123" >>,
      Https("youtube.com") \o << "/", "embed", "/", "xyz789" >>,
      Https("youtu.be") \o << "/" >>,
      Https("www.youtube.com") \o << "/", "watch", "?", "t", "=", "5s" >>,
      Https("example.com") \o << "/", "abc123" >> }

\* the same URLs and a short link whose path begins with two slashes
WideRunUrls == RunUrls \cup { Https("youtu.be") \o << "/", "/", "tmp" >> }

\* the title the audio service reports for a video
Titles == { << "My", " ", "Talk", "!" >> }

AudioData == { << "pcm" >> }

\* result["segments"] of the transcription engine
SegmentLists == { << << "hello" >> >>, << << "hello" >>, << "world" >> >> }

\* texts the completion service returns
NumberedSample ==
    << "1", ".", " ", "[", "hello", "]", ":", "\n",
       "meaning", " ", "[", "a", " ", "greeting", "]", "\n",
       "example", ":", " ", "Hello", " ", "there", ".", "\n",
       "translation", ":", " ", "annyeong" >>

LegacySample ==
    << "[", "hello", "]", ":", " ", "meaning", " ", "[", "a", " ", "greeting", "]", "\n",
       "example", ":", " ", "Hello", " ", "there", ".", "\n",
       "translation", ":", " ", "annyeong" >>

Rule == << "\n", "-", "-", "-", "\n" >>

Responses == { NumberedSample, LegacySample \o Rule \o << "sorry" >> }

\* str(e) of the exceptions the completion call raises
ErrorMessages == { << "overloaded" >> }

\* datetime.now().strftime("%Y%m%d"): the day the runs take place
Today == "20250101"

(***************************************************************************)
(* State                                                                   *)
(***************************************************************************)
VARIABLES
    fsDirs,           \* the directories that exist
    fsFiles,          \* path -> content of the files that exist
    clock,            \* the date datetime.now() reports
    pc,               \* where main() stands
    args,             \* parse_arguments()
    video_id,
    directories,
    audio_file,
    transcript_text,
    claude_response,
    records,          \* the records save_claude_response extracted
    vocabulary_file,
    exitCode,         \* "none" before the process ends, then "0", "1" or "killed"
    runs,             \* runs started so far
    log,              \* history: the events of the current run, in order
    written,          \* history: paths the current run wrote
    modified,         \* history: existing paths whose content the current run changed
    completed,        \* history: video_dir -> stages that completed in some run
    handed,           \* history: artifact path -> the value the execution that last wrote it passed on
    given,            \* history: the components the input under test was built from
    repeat            \* history: the run repeats the arguments of the run before it, which ended with exit code 0

vars == << fsDirs, fsFiles, clock, pc, args, video_id, directories, audio_file,
           transcript_text, claude_response, records, vocabulary_file,
           exitCode, runs, log, written, modified, completed, handed, given, repeat >>

locals == << video_id, directories, audio_file, transcript_text,
             claude_response, records, vocabulary_file >>

fs == << fsDirs, fsFiles, clock, given >>

NoArgs == [ url |-> << >>, force |-> FALSE, output_dir |-> OutputDir ]

(***************************************************************************)
(* File access                                                             *)
(***************************************************************************)

\* what an interrupted write can leave: bytes cut inside a character
Garbled == << "garbled" >>

\* open(path, 'r', encoding='utf-8').read()
ReadText(files, path) ==
    IF path \notin DOMAIN files THEN Raise("FileNotFoundError")
    ELSE IF files[path] = Garbled THEN Raise("UnicodeDecodeError")
    ELSE Ok(files[path])

\* os.path.exists(path)
Exists(files, path) == path \in DOMAIN files

\* open(path, 'w').write(content), with the history of the run's writes
WriteFile(path, content) ==
    /\ fsFiles' = (path :> content) @@ fsFiles
    /\ written' = written \cup {path}
    /\ modified' = modified \cup
          (IF path \in DOMAIN fsFiles /\ fsFiles[path] # content THEN {path} ELSE {})

NoWrite == UNCHANGED << fsFiles, written, modified >>

\* Variant of Exit: the process ends with status 0 whatever the code
Exit_always_zero(code) == pc' = "done" /\ exitCode' = "0"

\* sys.exit(code)
Exit(code) == pc' = "done" /\ exitCode' = code

Running == pc \notin {"idle", "done"}

Logged(e) == \E k \in 1..Len(log) : log[k] = e

(***************************************************************************)
(* setup_video_directories                                                 *)
(***************************************************************************)
DirectoriesOf(vid, base_output_dir) ==
    LET video_dir == path_join(base_output_dir, vid)
    IN  [ video_dir      |-> video_dir,
          audio_dir      |-> path_join(video_dir, << "1_audio" >>),
          transcript_dir |-> path_join(video_dir, << "2_transcript" >>),
          vocabulary_dir |-> path_join(video_dir, << "3_vocabulary" >>) ]

StageDirs(d) == { d.audio_dir, d.transcript_dir, d.vocabulary_dir }

NoDirectories == DirectoriesOf(<< >>, << >>)

(***************************************************************************)
(* Initial state: before the first run.  The output directory is empty,   *)
(* or it holds a workspace where somebody left a vocabulary.md.            *)
(***************************************************************************)
SeededDirs == DirectoriesOf(<< "abc123" >>, OutputDir)

InitialFileSystems ==
    { [ dirs |-> {}, files |-> << >> ],
      [ dirs  |-> UNION { MadeDirs(d) : d \in StageDirs(SeededDirs) },
        files |-> (path_join(SeededDirs.vocabulary_dir, << "vocabulary.md" >>)
                      :> LegacySample) ] }

InitRun ==
    /\ video_id = None
    /\ directories = NoDirectories
    /\ audio_file = None
    /\ transcript_text = None
    /\ claude_response = None
    /\ records = << >>
    /\ vocabulary_file = None
    /\ exitCode = "none"
    /\ runs = 0
    /\ log = << >>
    /\ written = {}
    /\ modified = {}
    /\ completed = {}
    /\ handed = << >>
    /\ repeat = FALSE

Init ==
    /\ \E f \in InitialFileSystems : fsDirs = f.dirs /\ fsFiles = f.files
    /\ clock = Today
    /\ given = << >>
    /\ pc = "idle"
    /\ args = NoArgs
    /\ InitRun

(***************************************************************************)
(* main(): one action per step                                             *)
(***************************************************************************)

\* line 264: a new invocation of the program, its URL one of urls
StartRunOn(urls) ==
    /\ pc \in {"idle", "done"}
    /\ runs < MaxRuns
    /\ \E u \in urls, f \in BOOLEAN :
          args' = [ url |-> u, force |-> f, output_dir |-> OutputDir ]
    /\ repeat' = (args' = args /\ exitCode = "0")
    /\ pc' = "resolve"
    /\ exitCode' = "none"
    /\ runs' = runs + 1
    /\ video_id' = None
    /\ directories' = NoDirectories
    /\ audio_file' = None
    /\ transcript_text' = None
    /\ claude_response' = None
    /\ records' = << >>
    /\ vocabulary_file' = None
    /\ log' = << >>
    /\ written' = {}
    /\ modified' = {}
    /\ UNCHANGED << fs, completed, handed >>

StartRun == StartRunOn(RunUrls)

StartWideRun == StartRunOn(WideRunUrls)

\* line 268, and lines 312-314 when get_video_id raises
ResolveId ==
    /\ pc = "resolve"
    /\ LET r == get_video_id(args.url)
       IN  IF r.ok
           THEN /\ video_id' = Some(r.value)
                /\ log' = Append(log, "resolve.ok")
                /\ pc' = "setup"
                /\ UNCHANGED exitCode
           ELSE /\ log' = Append(log, "resolve.fail")
                /\ Exit("1")
                /\ UNCHANGED video_id
    /\ UNCHANGED << fs, args, directories, audio_file, transcript_text,
                    claude_response, records, vocabulary_file, runs, written,
                    modified, completed, handed, repeat >>

\* Variant of SetupDirectories: main goes on with the transcription, the
\* audio stage left out
SetupDirectories_skipping_audio ==
    /\ pc = "setup"
    /\ directories' = DirectoriesOf(video_id[1], args.output_dir)
    /\ fsDirs' = fsDirs \cup UNION { MadeDirs(d) : d \in StageDirs(directories') }
    /\ log' = Append(log, "mkdir")
    /\ pc' = "transcribe"
    /\ UNCHANGED << fsFiles, clock, given, args, video_id, audio_file, transcript_text,
                    claude_response, records, vocabulary_file, exitCode, runs,
                    written, modified, completed, handed, repeat >>

\* line 269
SetupDirectories ==
    /\ pc = "setup"
    /\ directories' = DirectoriesOf(video_id[1], args.output_dir)
    /\ fsDirs' = fsDirs \cup UNION { MadeDirs(d) : d \in StageDirs(directories') }
    /\ log' = Append(log, "mkdir")
    /\ pc' = "download"
    /\ UNCHANGED << fsFiles, clock, given, args, video_id, audio_file, transcript_text,
                    claude_response, records, vocabulary_file, exitCode, runs,
                    written, modified, completed, handed, repeat >>

(***************************************************************************)
(* download_youtube_audio                                                  *)
(***************************************************************************)

\* line 66
AudioFiles(files, audio_dir) == { n \in listdir(files, audio_dir) : IsWav(n) }

\* line 67
AudioCached(files, audio_dir, force) == AudioFiles(files, audio_dir) # {} /\ ~force

download_youtube_audio ==
    /\ pc = "download"
    /\ LET audio_dir == directories.audio_dir
       IN  IF AudioCached(fsFiles, audio_dir, args.force)
           THEN \* lines 68-70; audio_files[0] follows the order of os.listdir
                /\ \E n \in AudioFiles(fsFiles, audio_dir) :
                      audio_file' = path_join(audio_dir, n)
                /\ log' = Append(log, "download.hit")
                /\ pc' = "transcribe"
                /\ NoWrite
                /\ UNCHANGED << exitCode, completed, handed >>
           ELSE \/ \* lines 87-92: the download succeeds
                   /\ \E t \in Titles, d \in AudioData :
                         LET audio_filename == path_join(audio_dir, t \o << ".wav" >>)
                         IN  /\ WriteFile(audio_filename, d)
                             /\ audio_file' = audio_filename
                   /\ log' = log \o << "download.call", "download.ok" >>
                   /\ completed' = completed \cup { << directories.video_dir, "download" >> }
                   /\ handed' = (audio_file' :> audio_file') @@ handed
                   /\ pc' = "transcribe"
                   /\ UNCHANGED exitCode
                \/ \* line 88 raises; lines 312-314
                   /\ log' = log \o << "download.call", "download.fail" >>
                   /\ Exit("1")
                   /\ NoWrite
                   /\ UNCHANGED << audio_file, completed, handed >>
    /\ UNCHANGED << fsDirs, clock, given, args, video_id, directories, transcript_text,
                    claude_response, records, vocabulary_file, runs, repeat >>

(***************************************************************************)
(* transcribe_with_whisperx                                                *)
(***************************************************************************)

\* line 97
TranscriptFile(transcript_dir) == path_join(transcript_dir, << "transcription.txt" >>)

\* Variant of TranscriptCached: a transcript that cannot be read counts as
\* absent, so the stage computes it again
TranscriptCached_falling_back(files, transcript_dir, force) ==
    /\ Exists(files, TranscriptFile(transcript_dir))
    /\ ~force
    /\ ReadText(files, TranscriptFile(transcript_dir)).ok

\* Variant of TranscriptCached: the force flag is not consulted
TranscriptCached_ignoring_force(files, transcript_dir, force) ==
    Exists(files, TranscriptFile(transcript_dir))

\* line 98
TranscriptCached(files, transcript_dir, force) ==
    Exists(files, TranscriptFile(transcript_dir)) /\ ~force

\* line 122: " ".join([segment["text"] for segment in result["segments"]])
RECURSIVE JoinSegments(_)
JoinSegments(segments) ==
    IF segments = << >> THEN << >>
    ELSE IF Len(segments) = 1 THEN segments[1]
    ELSE segments[1] \o << " " >> \o JoinSegments(Tail(segments))

transcribe_with_whisperx ==
    /\ pc = "transcribe"
    /\ LET transcript_file == TranscriptFile(directories.transcript_dir)
       IN  IF TranscriptCached(fsFiles, directories.transcript_dir, args.force)
           THEN \* lines 99-102
                LET r == ReadText(fsFiles, transcript_file)
                IN  /\ IF r.ok
                       THEN /\ transcript_text' = Some(r.value)
                            /\ log' = Append(log, "transcribe.hit")
                            /\ pc' = "query"
                            /\ UNCHANGED exitCode
                       ELSE /\ log' = log \o << "transcribe.hit", "read.fail" >>
                            /\ Exit("1")
                            /\ UNCHANGED transcript_text
                    /\ NoWrite
                    /\ UNCHANGED << completed, handed >>
           ELSE \/ \* lines 111-129
                   /\ \E segments \in SegmentLists :
                         LET full_text == JoinSegments(segments)
                         IN  /\ WriteFile(transcript_file, full_text)
                             /\ transcript_text' = Some(full_text)
                   /\ log' = log \o << "transcribe.call", "transcribe.ok" >>
                   /\ completed' = completed \cup { << directories.video_dir, "transcribe" >> }
                   /\ handed' = (TranscriptFile(directories.transcript_dir) :> transcript_text'[1])
                                    @@ handed
                   /\ pc' = "query"
                   /\ UNCHANGED exitCode
                \/ \* lines 111-115 raise; lines 312-314
                   /\ log' = log \o << "transcribe.call", "transcribe.fail" >>
                   /\ Exit("1")
                   /\ NoWrite
                   /\ UNCHANGED << transcript_text, completed, handed >>
    /\ UNCHANGED << fsDirs, clock, given, args, video_id, directories, audio_file,
                    claude_response, records, vocabulary_file, runs, repeat >>

(***************************************************************************)
(* query_claude_api                                                        *)
(***************************************************************************)

\* line 134
VocabularyProbe(vocabulary_dir) == path_join(vocabulary_dir, << "vocabulary.md" >>)

\* line 135
VocabularyCached(files, vocabulary_dir, force) ==
    Exists(files, VocabularyProbe(vocabulary_dir)) /\ ~force

\* Variant of RawResponseFile: the text is saved under the name the cache
\* probe looks for
RawResponseFile_as_probed(vocabulary_dir) == path_join(vocabulary_dir, << "vocabulary.md" >>)

\* line 168
RawResponseFile(vocabulary_dir) == path_join(vocabulary_dir, << "raw_response.txt" >>)

\* line 175: f"Error: {str(e)}"
ErrorPayload(message) == << "Error", ":", " " >> \o message

\* Variant of CompletionExcept: the handler lets the exception through
CompletionExcept_reraising(message) == Raise("Exception")

\* lines 173-175: the handler of the call returns the payload
CompletionExcept(message) == Ok(ErrorPayload(message))

query_claude_api ==
    /\ pc = "query"
    /\ LET vocabulary_dir == directories.vocabulary_dir
       IN  IF VocabularyCached(fsFiles, vocabulary_dir, args.force)
           THEN \* lines 136-139
                LET r == ReadText(fsFiles, VocabularyProbe(vocabulary_dir))
                IN  /\ IF r.ok
                       THEN /\ claude_response' = Some(r.value)
                            /\ log' = Append(log, "complete.hit")
                            /\ pc' = "save"
                            /\ UNCHANGED exitCode
                       ELSE /\ log' = log \o << "complete.hit", "read.fail" >>
                            /\ Exit("1")
                            /\ UNCHANGED claude_response
                    /\ NoWrite
                    /\ UNCHANGED << completed, handed >>
           ELSE \/ \* lines 158-172: the call returns a text
                   /\ \E text \in Responses :
                         /\ WriteFile(RawResponseFile(vocabulary_dir), text)
                         /\ claude_response' = Some(text)
                   /\ log' = log \o << "complete.call", "complete.ok" >>
                   /\ completed' = completed \cup { << directories.video_dir, "complete" >> }
                   /\ handed' = (RawResponseFile(vocabulary_dir) :> claude_response'[1]) @@ handed
                   /\ pc' = "save"
                   /\ UNCHANGED exitCode
                \/ \* lines 173-175: the call raises
                   /\ \E message \in ErrorMessages :
                         LET handled == CompletionExcept(message)
                         IN  IF handled.ok
                             THEN /\ claude_response' = Some(handled.value)
                                  /\ pc' = "save"
                                  /\ UNCHANGED exitCode
                             ELSE /\ Exit("1")
                                  /\ UNCHANGED claude_response
                   /\ log' = log \o << "complete.call", "complete.error" >>
                   /\ NoWrite
                   /\ UNCHANGED << completed, handed >>
    /\ UNCHANGED << fsDirs, clock, given, args, video_id, directories, audio_file,
                    transcript_text, records, vocabulary_file, runs, repeat >>

(***************************************************************************)
(* save_claude_response, then the end of main()                            *)
(***************************************************************************)

\* lines 183-188
VideoTitle(audio, vocabulary_dir) ==
    IF audio # None THEN TitleOf(audio)
    ELSE LET parts == SplitOn(vocabulary_dir, "/")
         IN  IF Len(parts) >= 3 THEN parts[Len(parts) - 2] ELSE << >>

\* line 193
VocabularyFile(vocabulary_dir, current_date, video_title) ==
    path_join(vocabulary_dir, << current_date, "_" >> \o safe_title(video_title) \o << ".md" >>)

save_claude_response ==
    /\ pc = "save"
    /\ LET current_date == clock
          IN
          LET video_title == VideoTitle(audio_file, directories.vocabulary_dir)
              extracted   == extract(claude_response[1])
              target      == VocabularyFile(directories.vocabulary_dir, current_date, video_title)
          IN  IF extracted.ok
              THEN /\ records' = extracted.value
                   /\ vocabulary_file' = target
                   /\ WriteFile(target, render(video_title, extracted.value))
                   /\ log' = log \o << "extract.ok", "document.write" >>
                   /\ Exit("0")
              ELSE \* an exception inside the loop; lines 312-314
                   /\ log' = Append(log, "extract.raise")
                   /\ Exit("1")
                   /\ NoWrite
                   /\ UNCHANGED << records, vocabulary_file >>
    /\ UNCHANGED << fsDirs, clock, given, args, video_id, directories, audio_file,
                    transcript_text, claude_response, runs, completed, handed, repeat >>

(***************************************************************************)
(* The process is killed while it runs (no handler runs, nothing is        *)
(* cleaned up).  Killed inside the write of line 126, it leaves a          *)
(* transcription.txt that is empty or cut.                                 *)
(***************************************************************************)
Truncations == { << >>, Garbled }

Killed ==
    /\ Running
    /\ \/ /\ NoWrite
          /\ log' = Append(log, "killed")
          /\ UNCHANGED handed
       \/ /\ pc = "transcribe"
          /\ ~TranscriptCached(fsFiles, directories.transcript_dir, args.force)
          /\ \E cut \in Truncations :
                WriteFile(TranscriptFile(directories.transcript_dir), cut)
          /\ log' = log \o << "transcribe.call", "killed" >>
          /\ handed' = [ f \in DOMAIN handed \ { TranscriptFile(directories.transcript_dir) }
                            |-> handed[f] ]
    /\ pc' = "done"
    /\ exitCode' = "killed"
    /\ UNCHANGED << fsDirs, clock, given, args, video_id, directories, audio_file,
                    transcript_text, claude_response, records, vocabulary_file,
                    runs, completed, repeat >>

Next ==
    \/ StartRun
    \/ ResolveId
    \/ SetupDirectories
    \/ download_youtube_audio
    \/ transcribe_with_whisperx
    \/ query_claude_api
    \/ save_claude_response
    \/ Killed

Spec == Init /\ [][Next]_vars

\* the pipeline over the wider set of URLs
NextWide ==
    \/ StartWideRun
    \/ ResolveId
    \/ SetupDirectories
    \/ download_youtube_audio
    \/ transcribe_with_whisperx
    \/ query_claude_api
    \/ save_claude_response
    \/ Killed

SpecWide == Init /\ [][NextWide]_vars

(***************************************************************************)
(* Identifier resolution on its own: every URL built from a bounded set    *)
(* of hosts, path segments and query parameters is resolved once.          *)
(***************************************************************************)
UrlHosts == { "youtu.be", "www.youtube.com", "youtube.com", "m.youtube.com", "example.com" }

\* a path is the list of its segments: /a/b is << <<"a">>, <<"b">> >>, / is
\* << << >> >> and the empty path is << >>
UrlPaths ==
    { << >>,
      << << >> >>,
      << << "abc123" >> >>,
      << << "abc123" >>, << "x" >> >>,
      << << >>, << "abc123" >> >>,
      << << "watch" >> >>,
      << << "watch" >>, << >> >>,
      << << "embed" >> >>,
      << << "embed" >>, << >> >>,
      << << "embed" >>, << "abc123" >> >>,
      << << "embed" >>, << "abc123" >>, << "x" >> >>,
      << << "v" >>, << "abc123" >> >>,
      << << "embedded" >>, << "abc123" >> >>,
      << << "shorts" >>, << "abc123" >> >> }

Param(name, value) == [ name |-> name, eq |-> TRUE, value |-> value ]
Bare(name)         == [ name |-> name, eq |-> FALSE, value |-> << >> ]

\* a query is the list of its parameters
UrlQueries ==
    { << >>,
      << Param(<< "v" >>, << "abc123" >>) >>,
      << Param(<< "v" >>, << "abc123" >>), Param(<< "t" >>, << "5s" >>) >>,
      << Param(<< "t" >>, << "5s" >>), Param(<< "v" >>, << "abc123" >>) >>,
      << Param(<< "v" >>, << "abc123" >>), Param(<< "v" >>, << "zzz" >>) >>,
      << Param(<< "t" >>, << "5s" >>) >>,
      << Param(<< "v" >>, << >>) >>,
      << Param(<< "v" >>, << >>), Param(<< "v" >>, << "abc123" >>) >>,
      << Bare(<< "v" >>) >>,
      << Bare(<< >>), Param(<< "v" >>, << "abc123" >>) >>,
      << Param(<< "vv" >>, << "abc123" >>) >> }

RECURSIVE PathText(_)
PathText(segments) ==
    IF segments = << >> THEN << >>
    ELSE << "/" >> \o Head(segments) \o PathText(Tail(segments))

ParamText(q) == q.name \o (IF q.eq THEN << "=" >> \o q.value ELSE << >>)

RECURSIVE QueryText(_)
QueryText(params) ==
    IF params = << >> THEN << >>
    ELSE IF Len(params) = 1 THEN ParamText(params[1])
    ELSE ParamText(params[1]) \o << "&" >> \o QueryText(Tail(params))

\* the text of the URL with these components
BuildUrl(scheme, host, segments, params) ==
    (IF scheme THEN Https(host) ELSE << host >>)
    \o PathText(segments)
    \o (IF params = << >> THEN << >> ELSE << "?" >> \o QueryText(params))

InitUrl ==
    /\ fsDirs = {}
    /\ fsFiles = << >>
    /\ clock = Today
    /\ InitRun
    /\ \E sc \in BOOLEAN, h \in UrlHosts, p \in UrlPaths, q \in UrlQueries :
          /\ given = [ scheme |-> sc, host |-> h, path |-> p, query |-> q ]
          /\ args = [ url |-> BuildUrl(sc, h, p, q), force |-> FALSE, output_dir |-> OutputDir ]
    /\ pc = "resolve"

SpecUrl == InitUrl /\ [][ResolveId]_vars

(***************************************************************************)
(* Properties of the runs                                                  *)
(***************************************************************************)
Stages == { "download", "transcribe", "complete" }

CallOf(stage) ==
    CASE stage = "download"   -> "download.call"
      [] stage = "transcribe" -> "transcribe.call"
      [] stage = "complete"   -> "complete.call"

HitOf(stage) ==
    CASE stage = "download"   -> "download.hit"
      [] stage = "transcribe" -> "transcribe.hit"
      [] stage = "complete"   -> "complete.hit"

In(l, e) == \E k \in 1..Len(l) : l[k] = e

Ended == pc = "done" /\ exitCode # "killed"

\* C1: a run that ends with exit code 0, repeats the arguments of the run
\* before it (which also ended with exit code 0) and has force = false has
\* changed the content of no file that existed when it started.
C1_RerunLeavesArtifactsIdentical ==
    (pc = "done" /\ exitCode = "0" /\ repeat /\ ~args.force) => modified = {}

\* C2: with force = true no stage is served from its cache, and a run that
\* has passed a cacheable stage has invoked the collaborator of that stage.
C2_ForceReexecutesEveryStage ==
    args.force =>
        /\ \A st \in Stages : ~Logged(HitOf(st))
        /\ (pc \in {"transcribe", "query", "save"} \/ exitCode = "0") => Logged("download.call")
        /\ (pc \in {"query", "save"} \/ exitCode = "0") => Logged("transcribe.call")
        /\ (pc = "save" \/ exitCode = "0") => Logged("complete.call")

\* C2 witness: a forced run ended with exit code 0 in a workspace where the
\* audio file, a different transcript and a vocabulary.md already existed.
C2_Witness ==
    /\ args.force
    /\ pc = "done"
    /\ exitCode = "0"
    /\ TranscriptFile(directories.transcript_dir) \in modified
    /\ audio_file \in written
    /\ audio_file \notin modified
    /\ Exists(fsFiles, VocabularyProbe(directories.vocabulary_dir))
    /\ runs = 2

\* C3: a run with force = false never invokes the collaborator of a stage
\* that some earlier run (or this one) already completed for the same
\* workspace.
C3_CompletedStageIsNotReinvoked ==
    [][ \A st \in Stages :
          (~args'.force /\ In(log', CallOf(st)) /\ ~In(log, CallOf(st)))
             => << directories.video_dir, st >> \notin completed ]_vars

\* C4: when the completion call raises, the stage returns the payload
\* "Error: <message>", extraction and rendering take it as the completion,
\* and the run ends with exit code 0 and the rendered document written.
C4_CompletionFailureIsSwallowed ==
    Logged("complete.error") =>
        /\ \E m \in ErrorMessages : claude_response = Some(<< "Error", ":", " " >> \o m)
        /\ pc \in {"save", "done"}
        /\ pc = "save" => extract(claude_response[1]).ok
        /\ Ended =>
              /\ exitCode = "0"
              /\ Logged("document.write")
              /\ vocabulary_file \in written
              /\ fsFiles[vocabulary_file] =
                    render(TitleOf(audio_file), extract(claude_response[1]).value)

C4_Witness ==
    /\ Logged("complete.error")
    /\ pc = "done"
    /\ exitCode = "0"
    /\ vocabulary_file \in DOMAIN fsFiles

LaterThanDownload ==
    { "transcribe.hit", "transcribe.call", "complete.hit", "complete.call",
      "extract.ok", "document.write" }

LaterThanTranscribe == { "complete.hit", "complete.call", "extract.ok", "document.write" }

UncaughtFailures ==
    { "resolve.fail", "download.fail", "transcribe.fail", "read.fail", "extract.raise", "killed" }

\* C5: a failed download or transcription ends the run at once with exit
\* code 1; no later stage is entered and no file of a later stage is written
\* in that run; a run that ends without an uncaught failure ends with 0.
C5_CollaboratorFailureAbortsRun ==
    /\ Logged("download.fail") =>
          /\ pc = "done" /\ exitCode = "1"
          /\ log[Len(log)] = "download.fail"
          /\ \A e \in LaterThanDownload : ~Logged(e)
          /\ written = {}
    /\ Logged("transcribe.fail") =>
          /\ pc = "done" /\ exitCode = "1"
          /\ log[Len(log)] = "transcribe.fail"
          /\ \A e \in LaterThanTranscribe : ~Logged(e)
          /\ written \subseteq { audio_file }
    /\ (pc = "done" /\ \A e \in UncaughtFailures : ~Logged(e)) => exitCode = "0"

C5_Witness ==
    /\ Logged("transcribe.fail")
    /\ Logged("download.call")
    /\ written = { audio_file }
    /\ pc = "done"
    /\ exitCode = "1"

UnrecognisedRunUrls ==
    { Https("www.youtube.com") \o << "/", "watch", "?", "t", "=", "5s" >>,
      Https("example.com") \o << "/", "abc123" >> }

\* C6: a run for a URL of no recognised shape ends at identifier resolution
\* with exit code 1, before any directory is made, any collaborator is
\* invoked or any file is written; and every resolution that succeeds yields
\* a non-empty identifier.
C6_UnrecognisedUrlFailsFast ==
    /\ args.url \in UnrecognisedRunUrls =>
          /\ pc \in {"resolve", "done"}
          /\ Ended => (exitCode = "1" /\ log = << "resolve.fail" >> /\ written = {})
    /\ Logged("resolve.ok") => (video_id # None /\ video_id[1] # << >>)

(***************************************************************************)
(* Properties of identifier resolution                                     *)
(***************************************************************************)

\* The reference mapping, on the components of the URL: None when the URL
\* has no identifier
ReferenceFirstV(params) ==
    LET vs == SelectSeq(params, LAMBDA q : q.name = << "v" >> /\ q.eq /\ q.value # << >>)
    IN  IF vs = << >> THEN None ELSE Some(vs[1].value)

ReferenceId(scheme, host, segments, params) ==
    IF ~scheme THEN None
    ELSE IF host = "youtu.be"
    THEN Some(IF segments = << >> THEN << >> ELSE Tail(PathText(segments)))
    ELSE IF host \in {"www.youtube.com", "youtube.com"}
    THEN IF segments = << << "watch" >> >> THEN ReferenceFirstV(params)
         ELSE IF Len(segments) >= 2 /\ segments[1] \in { << "embed" >>, << "v" >> }
         THEN Some(segments[2])
         ELSE None
    ELSE None

\* C7: on every URL built from the bounded hosts, paths and queries the
\* identifier the run resolves is the one of the reference mapping, and the
\* run fails with exit code 1 where the reference has none.
C7_IdentifierMatchesReference ==
    pc # "resolve" =>
        LET ref == ReferenceId(given.scheme, given.host, given.path, given.query)
        IN  IF ref = None
            THEN pc = "done" /\ exitCode = "1" /\ video_id = None
            ELSE pc = "setup" /\ video_id = ref

\* C7 witness: the watch form with another parameter before v, and the embed form
C7_Witness ==
    /\ pc = "setup"
    /\ given.host = "www.youtube.com"
    /\ given.path = << << "watch" >> >>
    /\ given.query = << Param(<< "t" >>, << "5s" >>), Param(<< "v" >>, << "abc123" >>) >>
    /\ video_id = Some(<< "abc123" >>)

(***************************************************************************)
(* save_claude_response on its own: the completion text is built from a    *)
(* bounded library of entry blocks, joined by a rule.  Each block of the   *)
(* library records what it holds: its term, whether it has a numbered      *)
(* heading, a bracketed meaning under the English label, the combined      *)
(* "[term]: label [meaning]" pair, an example line and a translation line. *)
(***************************************************************************)
MaxBlocks == 3

Block(text, term, ordinal, numbered, meaning, pair, example, translation) ==
    [ text |-> text, term |-> term, ordinal |-> ordinal, numbered |-> numbered,
      meaning |-> meaning, pair |-> pair, example |-> example,
      translation |-> translation ]

BlockLibrary ==
    { \* 3. [gamma]: / meaning [..] / example: .. / translation: ..
      Block(<< "3", ".", " ", "[", "gamma", "]", ":", "\n",
               "meaning", " ", "[", "third", " ", "letter", "]", "\n",
               "example", ":", " ", "Gamma", " ", "rays", ".", "\n",
               "translation", ":", " ", "gamma_t" >>,
            << "gamma" >>, << "3" >>, TRUE, TRUE, FALSE, TRUE, TRUE),
      \* **1**. [alpha]: with capitalised labels and the localized translation label
      Block(<< "*", "*", "1", "*", "*", ".", " ", "[", "alpha", "]", ":", "\n",
               "Meaning", " ", "[", "first", "]", "\n",
               "Example", ":", " ", "Alpha", " ", "\n",
               "ko_translation", ":", " ", "alpha_t" >>,
            << "alpha" >>, << "1" >>, TRUE, TRUE, FALSE, TRUE, TRUE),
      \* 2. [beta]: meaning [..] on the heading line
      Block(<< "2", ".", " ", "[", "beta", "]", ":", " ", "meaning", " ", "[", "second", "]", "\n",
               "ko_example", ":", " ", "Beta", "\n",
               "TRANSLATION", ":", " ", "beta_t" >>,
            << "beta" >>, << "2" >>, TRUE, TRUE, TRUE, TRUE, TRUE),
      \* the unnumbered dialect
      Block(<< "[", "delta", "]", ":", " ", "meaning", " ", "[", "fourth", "]", "\n",
               "example", ":", " ", "Delta", "\n",
               "translation", ":", " ", "delta_t" >>,
            << "delta" >>, << >>, FALSE, TRUE, TRUE, TRUE, TRUE),
      \* the unnumbered dialect under the localized labels
      Block(<< "[", "epsilon", "]", ":", " ", "ko_meaning", " ", "[", "fifth", "]", "\n",
               "ko_example", ":", " ", "Epsilon", "\n",
               "ko_translation", ":", " ", "epsilon_t" >>,
            << "epsilon" >>, << >>, FALSE, FALSE, TRUE, TRUE, TRUE),
      \* numbered, no translation line
      Block(<< "4", ".", " ", "[", "zeta", "]", ":", "\n",
               "meaning", " ", "[", "sixth", "]", "\n",
               "example", ":", " ", "Zeta" >>,
            << "zeta" >>, << "4" >>, TRUE, TRUE, FALSE, TRUE, FALSE),
      \* numbered heading, meaning under the localized label
      Block(<< "5", ".", " ", "[", "eta", "]", ":", " ", "ko_meaning", " ", "[", "seventh", "]", "\n",
               "example", ":", " ", "Eta", "\n",
               "translation", ":", " ", "eta_t" >>,
            << "eta" >>, << "5" >>, TRUE, FALSE, TRUE, TRUE, TRUE),
      \* unnumbered, no example line
      Block(<< "[", "theta", "]", ":", " ", "meaning", " ", "[", "eighth", "]", "\n",
               "translation", ":", " ", "theta_t" >>,
            << "theta" >>, << >>, FALSE, TRUE, TRUE, FALSE, TRUE),
      \* blank
      Block(<< " ", "\n" >>, << >>, << >>, FALSE, FALSE, FALSE, FALSE, FALSE),
      \* prose with a two-dash run, which is no rule
      Block(<< "sorry", " ", "-", "-", " ", "nothing" >>,
            << >>, << >>, FALSE, FALSE, FALSE, FALSE, FALSE),
      \* the payload of a failed completion call
      Block(ErrorPayload(<< "overloaded" >>),
            << >>, << >>, FALSE, FALSE, FALSE, FALSE, FALSE) }

Rules == { << "\n", "-", "-", "-", "\n" >>, << "\n", "-", "-", "-", "-", "-", "\n" >> }

RECURSIVE JoinBlocks(_, _)
JoinBlocks(blocks, rule) ==
    IF blocks = << >> THEN << >>
    ELSE IF Len(blocks) = 1 THEN blocks[1].text
    ELSE blocks[1].text \o rule \o JoinBlocks(Tail(blocks), rule)

BlockLists == UNION { [ 1..n -> BlockLibrary ] : n \in 0..MaxBlocks }

SaveTitles == { << "My", " ", "Talk", "!" >> }

InitExtract ==
    /\ \E blocks \in BlockLists, rule \in Rules, title \in SaveTitles :
          /\ given = [ blocks |-> blocks, rule |-> rule, title |-> title ]
          /\ claude_response = Some(JoinBlocks(blocks, rule))
          /\ audio_file = path_join(SeededDirs.audio_dir, title \o << ".wav" >>)
          /\ fsFiles = (audio_file :> << "pcm" >>)
                       @@ (TranscriptFile(SeededDirs.transcript_dir) :> << "hello" >>)
                       @@ (RawResponseFile(SeededDirs.vocabulary_dir) :> claude_response[1])
    /\ fsDirs = UNION { MadeDirs(d) : d \in StageDirs(SeededDirs) }
    /\ clock = Today
    /\ pc = "save"
    /\ args = [ url |-> Https("youtu.be") \o << "/", "abc123" >>, force |-> FALSE,
                output_dir |-> OutputDir ]
    /\ video_id = Some(<< "abc123" >>)
    /\ directories = SeededDirs
    /\ transcript_text = Some(<< "hello" >>)
    /\ records = << >>
    /\ vocabulary_file = None
    /\ exitCode = "none"
    /\ runs = 1
    /\ log = << "resolve.ok", "mkdir", "download.call", "download.ok",
                "transcribe.call", "transcribe.ok", "complete.call", "complete.ok" >>
    /\ written = DOMAIN fsFiles
    /\ modified = {}
    /\ completed = { << SeededDirs.video_dir, st >> : st \in Stages }
    /\ handed = (audio_file :> audio_file)
                @@ (TranscriptFile(SeededDirs.transcript_dir) :> << "hello" >>)
                @@ (RawResponseFile(SeededDirs.vocabulary_dir) :> claude_response[1])
    /\ repeat = FALSE

SpecExtract == InitExtract /\ [][save_claude_response]_vars

(***************************************************************************)
(* Properties of extraction                                                *)
(***************************************************************************)
RECURSIVE IsSubsequence(_, _)
IsSubsequence(a, b) ==
    IF a = << >> THEN TRUE
    ELSE IF b = << >> THEN FALSE
    ELSE IF Head(a) = Head(b) THEN IsSubsequence(Tail(a), Tail(b))
    ELSE IsSubsequence(a, Tail(b))

TermsOf(rs) == [ k \in 1..Len(rs) |-> rs[k].term ]

OrdinalsOf(rs) == [ k \in 1..Len(rs) |-> rs[k].ordinal ]

\* the blocks of the input that are not blank, in textual order
NonBlankBlocks == SelectSeq(given.blocks, LAMBDA b : ~IsBlank(b.text))

\* what the two dialects ask of a block
Qualifies(b) ==
    IF b.numbered THEN b.meaning /\ b.example /\ b.translation
    ELSE b.pair /\ b.example /\ b.translation

\* C8: the records are, in order, records of some of the non-blank blocks
\* of the text, each block giving at most one: the terms of the records are
\* a subsequence of the terms of the non-blank blocks.
C8_ExtractionPreservesOrder ==
    pc = "done" =>
        /\ IsSubsequence(TermsOf(records), TermsOf(NonBlankBlocks))
        /\ Len(records) <= Len(NonBlankBlocks)

\* C8 witness: blocks numbered 3, 1, 2 in the text give records 3, 1, 2
C8_Witness ==
    /\ pc = "done"
    /\ OrdinalsOf(given.blocks) = << << "3" >>, << "1" >>, << "2" >> >>
    /\ OrdinalsOf(records) = << << "3" >>, << "1" >>, << "2" >> >>
    /\ TermsOf(records) = << << "gamma" >>, << "alpha" >>, << "beta" >> >>

\* C9: every record has its term and its three fields; a block gives a
\* record exactly when it has all that its dialect asks; and a block with a
\* numbered heading is read under the numbered dialect only, its record
\* carrying the ordinal.
C9_AllOrNothingWithDialectPriority ==
    pc = "done" =>
        /\ \A k \in 1..Len(records) :
              /\ records[k].term # << >>
              /\ records[k].meaning # << >>
              /\ records[k].example # << >>
              /\ records[k].translation # << >>
        /\ \A i \in 1..Len(given.blocks) :
              LET b == given.blocks[i]
              IN  b.term # << >> =>
                     ( (\E k \in 1..Len(records) :
                            records[k].term = b.term /\ records[k].ordinal = b.ordinal)
                       <=> Qualifies(b) )
        /\ Len(records) = Cardinality({ i \in 1..Len(given.blocks) : Qualifies(given.blocks[i]) })

\* C9 witness: a block with a numbered heading whose meaning is under the
\* localized label, followed by a well-formed unnumbered block: one record
C9_Witness ==
    /\ pc = "done"
    /\ Len(given.blocks) = 2
    /\ given.blocks[1].numbered /\ ~given.blocks[1].meaning /\ given.blocks[1].pair
    /\ given.blocks[1].example /\ given.blocks[1].translation
    /\ TermsOf(records) = << << "delta" >> >>

\* C10: save_claude_response ends without an exception on every text; when
\* no block qualifies there are no records and the document is the title
\* heading alone.
C10_ExtractionNeverRaises ==
    pc = "done" =>
        /\ exitCode = "0"
        /\ ~Logged("extract.raise")
        /\ Logged("document.write")
        /\ (\A i \in 1..Len(given.blocks) : ~Qualifies(given.blocks[i])) =>
              /\ records = << >>
              /\ fsFiles[vocabulary_file] = << "#", " " >> \o given.title \o << "\n", "\n" >>

\* C10 witness: the text is the payload of a failed completion call
C10_Witness ==
    /\ pc = "done"
    /\ exitCode = "0"
    /\ claude_response = Some(<< "Error", ":", " ", "overloaded" >>)
    /\ records = << >>
    /\ fsFiles[vocabulary_file] = << "#", " " >> \o given.title \o << "\n", "\n" >>

(***************************************************************************)
(* Round trip of extraction and rendering                                  *)
(***************************************************************************)

\* the values the entries of the library carry, as they stand in their text
ValuesOf(term) ==
    CASE term = << "gamma" >>   -> [ meaning |-> << "third", " ", "letter" >>,
                                     example |-> << "Gamma", " ", "rays", "." >>,
                                     translation |-> << "gamma_t" >> ]
      [] term = << "alpha" >>   -> [ meaning |-> << "first" >>, example |-> << "Alpha" >>,
                                     translation |-> << "alpha_t" >> ]
      [] term = << "beta" >>    -> [ meaning |-> << "second" >>, example |-> << "Beta" >>,
                                     translation |-> << "beta_t" >> ]
      [] term = << "delta" >>   -> [ meaning |-> << "fourth" >>, example |-> << "Delta" >>,
                                     translation |-> << "delta_t" >> ]
      [] term = << "epsilon" >> -> [ meaning |-> << "fifth" >>, example |-> << "Epsilon" >>,
                                     translation |-> << "epsilon_t" >> ]
      [] term = << "zeta" >>    -> [ meaning |-> << "sixth" >>, example |-> << "Zeta" >>,
                                     translation |-> << >> ]
      [] term = << "eta" >>     -> [ meaning |-> << "seventh" >>, example |-> << "Eta" >>,
                                     translation |-> << "eta_t" >> ]
      [] term = << "theta" >>   -> [ meaning |-> << "eighth" >>, example |-> << >>,
                                     translation |-> << "theta_t" >> ]
      [] OTHER                  -> [ meaning |-> << >>, example |-> << >>,
                                     translation |-> << >> ]

\* an entry is well formed when it has its term, a bracketed meaning under
\* one of the two meaning labels, an example line and a translation line
WellFormed(b) ==
    /\ b.term # << >>
    /\ IF b.numbered THEN b.meaning \/ b.pair ELSE b.pair
    /\ b.example
    /\ b.translation

\* the card of an entry: one heading level and one field order for both
\* dialects, the ordinal shown exactly for a numbered entry
ExpectedCard(b) ==
    << "#", "#", "#", " " >>
    \o (IF b.numbered THEN b.ordinal \o << ".", " " >> ELSE << >>)
    \o << "memo", " ", "*", "*" >> \o b.term \o << "*", "*", " ", " ", "\n" >>
    \o << "-", " ", "*", "*", "Meaning", "*", "*", ":", " " >>
    \o ValuesOf(b.term).meaning \o << " ", " ", "\n" >>
    \o << "-", " ", "*", "*", "Example", "*", "*", ":", " ", "*" >>
    \o ValuesOf(b.term).example \o << "*", " ", " ", "\n" >>
    \o << "-", " ", "*", "*", "Translation", "*", "*", ":", " " >>
    \o ValuesOf(b.term).translation
    \o << "\n", "\n", "-", "-", "-" >>

RECURSIVE ExpectedCards(_)
ExpectedCards(blocks) ==
    IF blocks = << >> THEN << >>
    ELSE IF Len(blocks) = 1 THEN ExpectedCard(blocks[1])
    ELSE ExpectedCard(blocks[1]) \o << "\n", "\n" >> \o ExpectedCards(Tail(blocks))

ExpectedDocument(title, blocks) ==
    << "#", " " >> \o title \o << "\n", "\n" >>
    \o ExpectedCards(SelectSeq(blocks, WellFormed))

\* C11: the rendered document is the title heading followed by one card per
\* well-formed entry of the text, in order, and none for a malformed entry;
\* each card shows the entry's term, meaning, example and translation as
\* they stand in the text, in one layout for both dialects, with the
\* ordinal exactly for the numbered entries.
C11_RoundTripOneCardPerWellFormedEntry ==
    (pc = "done" /\ exitCode = "0") =>
        fsFiles[vocabulary_file] = ExpectedDocument(given.title, given.blocks)

\* the same statement for the texts in which every numbered entry carries
\* its meaning under the English label
RoundTripOfEnglishMeanings ==
    (pc = "done" /\ exitCode = "0"
       /\ \A i \in 1..Len(given.blocks) :
             given.blocks[i].numbered /\ WellFormed(given.blocks[i])
                => given.blocks[i].meaning) =>
        fsFiles[vocabulary_file] = ExpectedDocument(given.title, given.blocks)

(***************************************************************************)
(* Order of the stages within a run                                        *)
(***************************************************************************)

\* the stage an event of the log belongs to; the events that end a run
\* where it stands come last
RankOf(e) ==
    CASE e \in {"resolve.ok", "resolve.fail"} -> 1
      [] e = "mkdir" -> 2
      [] e \in {"download.hit", "download.call", "download.ok", "download.fail"} -> 3
      [] e \in {"transcribe.hit", "transcribe.call", "transcribe.ok", "transcribe.fail"} -> 4
      [] e \in {"complete.hit", "complete.call", "complete.ok", "complete.error"} -> 5
      [] e \in {"extract.ok", "extract.raise", "document.write"} -> 6
      [] OTHER -> 7

\* the events with which a stage begins, and those with which it has
\* completed or has been served from its cache
BeginEvents ==
    {"mkdir", "download.hit", "download.call", "transcribe.hit", "transcribe.call",
     "complete.hit", "complete.call", "extract.ok", "extract.raise"}

DoneEvents ==
    {"resolve.ok", "mkdir", "download.hit", "download.ok", "transcribe.hit",
     "transcribe.ok", "complete.hit", "complete.ok", "complete.error", "document.write"}

Occurrences(e) == Cardinality({ k \in 1..Len(log) : log[k] = e })

\* C12: the events of a run follow the order of the stages; a stage begins
\* only after the stage before it has completed or was served from its
\* cache; each stage holds the value the stage before it produced or
\* loaded; each collaborator is invoked at most once in a run; and nothing
\* follows the writing of the document.
C12_StagesRunInOrder ==
    /\ \A i, j \in 1..Len(log) : i < j => RankOf(log[i]) <= RankOf(log[j])
    /\ \A k \in 1..Len(log) :
          log[k] \in BeginEvents =>
             \E j \in 1..(k - 1) :
                log[j] \in DoneEvents /\ RankOf(log[j]) = RankOf(log[k]) - 1
    /\ \A st \in Stages :
          Occurrences(CallOf(st)) + Occurrences(HitOf(st)) <= 1
    /\ pc = "setup" => video_id # None
    /\ pc = "download" => directories = DirectoriesOf(video_id[1], args.output_dir)
    /\ pc = "transcribe" => Exists(fsFiles, audio_file)
    /\ pc = "query" =>
          transcript_text = Some(fsFiles[TranscriptFile(directories.transcript_dir)])
    /\ pc = "save" =>
          \/ Logged("complete.ok")
               /\ claude_response = Some(fsFiles[RawResponseFile(directories.vocabulary_dir)])
          \/ Logged("complete.hit")
               /\ claude_response = Some(fsFiles[VocabularyProbe(directories.vocabulary_dir)])
          \/ Logged("complete.error")
               /\ \E m \in ErrorMessages : claude_response = Some(ErrorPayload(m))
    /\ Logged("document.write") =>
          /\ pc = "done"
          /\ log[Len(log)] = "document.write"
          /\ records = extract(claude_response[1]).value
          /\ fsFiles[vocabulary_file] = render(TitleOf(audio_file), records)

\* C12 witness: a second run that is served audio and transcript from the
\* caches, calls the completion service and writes the document
C12_Witness ==
    /\ runs = 2
    /\ pc = "done"
    /\ exitCode = "0"
    /\ log = << "resolve.ok", "mkdir", "download.hit", "transcribe.hit",
                "complete.call", "complete.ok", "extract.ok", "document.write" >>

(***************************************************************************)
(* The cache decision of the three cacheable stages                        *)
(***************************************************************************)

\* the step begins stage st: its call or its cache hit enters the log
Begins(st) ==
    /\ ~In(log, CallOf(st)) /\ ~In(log, HitOf(st))
    /\ In(log', CallOf(st)) \/ In(log', HitOf(st))

\* the artifact of the stage exists: what the stage persists when it
\* executes (an audio file, transcription.txt, raw_response.txt)
ArtifactExists(st) ==
    CASE st = "download"   -> AudioFiles(fsFiles, directories.audio_dir) # {}
      [] st = "transcribe" -> Exists(fsFiles, TranscriptFile(directories.transcript_dir))
      [] st = "complete"   -> Exists(fsFiles, RawResponseFile(directories.vocabulary_dir))

\* the path the stage probes exists
ProbedExists(st) ==
    CASE st = "download"   -> AudioFiles(fsFiles, directories.audio_dir) # {}
      [] st = "transcribe" -> Exists(fsFiles, TranscriptFile(directories.transcript_dir))
      [] st = "complete"   -> Exists(fsFiles, VocabularyProbe(directories.vocabulary_dir))

\* C13: a stage that begins invokes its collaborator exactly when force is
\* set or the artifact of the stage does not exist at that moment, whatever
\* the artifact holds and whatever the earlier stages of the run did; and a
\* cache hit writes nothing.
C13_ExistenceIsTheCacheKey ==
    [][ \A st \in Stages :
           Begins(st) =>
              /\ In(log', CallOf(st)) <=> (args.force \/ ~ArtifactExists(st))
              /\ In(log', HitOf(st)) => (fsFiles' = fsFiles /\ written' = written) ]_vars

\* the same statement about the path each stage probes: for the completion
\* stage 3_vocabulary/vocabulary.md
CacheDecisionFollowsProbedPath ==
    [][ \A st \in Stages :
           Begins(st) =>
              /\ In(log', CallOf(st)) <=> (args.force \/ ~ProbedExists(st))
              /\ In(log', HitOf(st)) => (fsFiles' = fsFiles /\ written' = written) ]_vars

(***************************************************************************)
(* Failure to read a cached artifact                                       *)
(***************************************************************************)

\* transcription.txt of the run's workspace exists and cannot be read
TranscriptUnreadable ==
    /\ Exists(fsFiles, TranscriptFile(directories.transcript_dir))
    /\ ~ReadText(fsFiles, TranscriptFile(directories.transcript_dir)).ok

\* C14: when the transcription stage begins over a transcription.txt that
\* exists and cannot be read, a run without force ends there with exit
\* code 1, the engine is not invoked and no file changes; only a run with
\* force invokes the engine.
C14_ReadFailureIsNotRecomputed ==
    [][ (TranscriptUnreadable /\ Begins("transcribe")) =>
           IF args.force
           THEN In(log', "transcribe.call")
           ELSE /\ log' = log \o << "transcribe.hit", "read.fail" >>
                /\ pc' = "done"
                /\ exitCode' = "1"
                /\ fsFiles' = fsFiles
                /\ written' = written ]_vars

\* C14 witness: the run after a killed one found the cut transcript, failed
\* to read it and ended with exit code 1, the file still as it was
C14_Witness ==
    /\ runs = 2
    /\ pc = "done"
    /\ exitCode = "1"
    /\ ~args.force
    /\ Logged("read.fail")
    /\ ~Logged("transcribe.call")
    /\ fsFiles[TranscriptFile(directories.transcript_dir)] = Garbled

(***************************************************************************)
(* The two spellings of the labels in the numbered dialect                 *)
(***************************************************************************)

\* the records hold one for block b, with the values of its text
HasRecordOf(b) ==
    \E k \in 1..Len(records) :
       /\ records[k].term = b.term
       /\ records[k].ordinal = b.ordinal
       /\ records[k].meaning = ValuesOf(b.term).meaning
       /\ records[k].example = ValuesOf(b.term).example
       /\ records[k].translation = ValuesOf(b.term).translation

\* C15: a block with a numbered heading that has its meaning, example and
\* translation, each under either spelling of its label and in any letter
\* case, yields a record with the values of its text.
C15_NumberedDialectAcceptsBothLabels ==
    (pc = "done" /\ exitCode = "0") =>
        \A i \in 1..Len(given.blocks) :
           (given.blocks[i].numbered /\ WellFormed(given.blocks[i]))
              => HasRecordOf(given.blocks[i])

\* the same statement for the example and translation labels only: the
\* meaning under its English label
BothLabelsOfExampleAndTranslation ==
    (pc = "done" /\ exitCode = "0") =>
        \A i \in 1..Len(given.blocks) :
           (given.blocks[i].numbered /\ WellFormed(given.blocks[i])
              /\ given.blocks[i].meaning)
              => HasRecordOf(given.blocks[i])

(***************************************************************************)
(* The raw completion text                                                 *)
(***************************************************************************)
RawResponsePath == path_join(directories.vocabulary_dir, << "raw_response.txt" >>)

\* C16 as stated: at the end of every run in which the completion service
\* was invoked, raw_response.txt exists and holds the text the stage handed
\* to extraction in that run.
C16_RawResponsePersistedOnEveryCall ==
    (Ended /\ Logged("complete.call")) =>
        /\ Exists(fsFiles, RawResponsePath)
        /\ claude_response = Some(fsFiles[RawResponsePath])

\* C16 amended: in every run in which the completion service was invoked
\* and returned a text, raw_response.txt was written in that run and holds
\* the text the stage handed to extraction; when the call raised, the run
\* did not write raw_response.txt and the stage handed on the error payload.
C16_RawResponsePersistedOnSuccess ==
    /\ Logged("complete.ok") =>
          /\ Exists(fsFiles, RawResponsePath)
          /\ RawResponsePath \in written
          /\ claude_response = Some(fsFiles[RawResponsePath])
    /\ Logged("complete.error") =>
          /\ RawResponsePath \notin written
          /\ \E m \in ErrorMessages : claude_response = Some(ErrorPayload(m))

\* C16 witness: a second run whose call returned a text other than the one
\* of the first run, raw_response.txt overwritten with it
C16_Witness ==
    /\ runs = 2
    /\ pc = "done"
    /\ exitCode = "0"
    /\ Logged("complete.ok")
    /\ RawResponsePath \in modified
    /\ claude_response = Some(fsFiles[RawResponsePath])

(***************************************************************************)
(* The value of a cache hit                                                *)
(***************************************************************************)

\* the value of a hit on the artifact at path is the one the execution
\* that wrote the artifact passed to its next stage
SameAsFresh(path, value) == path \in DOMAIN handed /\ value = Some(handed[path])

\* C17: in each cacheable stage the value a run obtains from a cache hit is
\* the value that the execution which created the artifact passed on: the
\* same audio file, the same transcript text, the same completion text.
C17_CachedValueEqualsFreshValue ==
    /\ Logged("download.hit") => SameAsFresh(audio_file, Some(audio_file))
    /\ (Logged("transcribe.hit") /\ transcript_text # None) =>
          SameAsFresh(TranscriptFile(directories.transcript_dir), transcript_text)
    /\ (Logged("complete.hit") /\ claude_response # None) =>
          SameAsFresh(VocabularyProbe(directories.vocabulary_dir), claude_response)

\* the same statement for the hits on artifacts that an execution wrote to
\* the end and passed on
CachedValueOfWholeArtifacts ==
    /\ Logged("download.hit") => SameAsFresh(audio_file, Some(audio_file))
    /\ (Logged("transcribe.hit") /\ transcript_text # None
          /\ TranscriptFile(directories.transcript_dir) \in DOMAIN handed) =>
          SameAsFresh(TranscriptFile(directories.transcript_dir), transcript_text)

(***************************************************************************)
(* Isolation of the workspaces                                             *)
(***************************************************************************)

\* {output_dir}/{videoId}/, with no empty path segment
WorkspacePrefix(output_dir, vid) ==
    IF vid = << >> THEN output_dir \o << "/" >>
    ELSE IF Head(vid) = "/" THEN output_dir \o vid \o << "/" >>
    ELSE output_dir \o << "/" >> \o vid \o << "/" >>

\* the files whose existence or content the step changes
ChangedFiles ==
    { f \in (DOMAIN fsFiles) \cup (DOMAIN fsFiles') :
         \/ f \notin DOMAIN fsFiles
         \/ f \notin DOMAIN fsFiles'
         \/ fsFiles[f] # fsFiles'[f] }

\* the identifiers the URLs of the runs resolve to
RunIdentifiers ==
    { get_video_id(u).value : u \in { u \in WideRunUrls : get_video_id(u).ok } }

\* the artifacts of the workspace of identifier vid: the files of its three
\* stage directories
ArtifactsOf(files, vid) ==
    { f \in DOMAIN files :
         \E d \in StageDirs(DirectoriesOf(vid, OutputDir)) :
            StartsWith(f, d \o << "/" >>) /\ SliceFrom(f, Len(d) + 1) \in listdir(files, d) }

\* C18: every directory a step of a run makes is the run's workspace
\* {output_dir}/{videoId}/, lies under it or above it, and every file it
\* creates or changes lies under it; the artifacts of the workspace of
\* every other identifier stay as they are; and setting up a workspace
\* whose directories exist changes nothing and goes on to the next stage.
C18_RunStaysInsideItsWorkspace ==
    [][ video_id' # None =>
          LET prefix == WorkspacePrefix(args'.output_dir, video_id'[1])
          IN  /\ \A d \in fsDirs' \ fsDirs :
                    StartsWith(d \o << "/" >>, prefix) \/ StartsWith(prefix, d \o << "/" >>)
              /\ \A f \in ChangedFiles : StartsWith(f, prefix)
              /\ \A other \in RunIdentifiers \ { video_id'[1] } :
                    ArtifactsOf(fsFiles, other) \cap ChangedFiles = {}
              /\ (pc = "setup" /\ pc' # "done"
                    /\ StageDirs(DirectoriesOf(video_id[1], args.output_dir)) \subseteq fsDirs) =>
                    (fsDirs' = fsDirs /\ fsFiles' = fsFiles /\ pc' = "download") ]_vars

\* the same statement for the runs whose identifier is one non-empty path
\* segment
IsolationOfPlainIdentifiers ==
    [][ (video_id' # None /\ Len(video_id'[1]) = 1 /\ video_id'[1][1] # "/") =>
          LET prefix == WorkspacePrefix(args'.output_dir, video_id'[1])
          IN  /\ \A d \in fsDirs' \ fsDirs :
                    StartsWith(d \o << "/" >>, prefix) \/ StartsWith(prefix, d \o << "/" >>)
              /\ \A f \in ChangedFiles : StartsWith(f, prefix)
              /\ \A other \in RunIdentifiers \ { video_id'[1] } :
                    ArtifactsOf(fsFiles, other) \cap ChangedFiles = {}
              /\ (pc = "setup" /\ pc' # "done"
                    /\ StageDirs(DirectoriesOf(video_id[1], args.output_dir)) \subseteq fsDirs) =>
                    (fsDirs' = fsDirs /\ fsFiles' = fsFiles /\ pc' = "download") ]_vars

====
